---- MODULE Spec2Model ----
(***************************************************************************)
(* LifeSignal (src/main.py): a Telegram bot implementing a dead-man's      *)
(* switch with credential lockout and trustee-assisted recovery.           *)
(*                                                                         *)
(* Scheduling, as the code sets it up in main():                           *)
(*   - Application.builder()...build() leaves concurrent_updates off, so   *)
(*     the update handlers run one after the other: a handler is one       *)
(*     action, except handle_im_safe, whose load and commit are separate   *)
(*     steps because the scheduler job may commit in between;              *)
(*   - check_dead_mans_switch is an AsyncIOScheduler job on the same event *)
(*     loop (max_instances 1): one pass at a time, interleaved with the    *)
(*     handlers at its awaits.                                             *)
(* SQLAlchemy flushes only the columns whose value changed since the row   *)
(* was loaded, so a commit is modelled as an update of exactly those       *)
(* columns of the stored row.                                              *)
(***************************************************************************)
EXTENDS Integers, Sequences, FiniteSets, TLC

\* ---------------------------------------------------------------- bounds
\* Telegram user ids of the model (12 so that str(1) is a substring of str(12)).
Users == {1, 2, 12}
\* Users that act as account owners (password, vault, heartbeat, settings).
Owners == {1}
\* Users that answer invitations.
Helpers == {2, 12}
\* The helpers that run the /unlock flow in LockSpec.
Unlockers == {2}
\* Nine further trustees of owner 1 in BindSpec, who send no update.
Crowd == 3..11
\* The clock advances TickHours per Tick, MaxTicks times.
TickHours == 30
MaxTicks == 2
\* Autoincrement ids handed out by the wills / contacts tables.
MaxWillRows == 1
MaxContactRows == 2

\* ------------------------------------------------------- program constants
max_attempts == 5
\* show_contacts_menu: the invite button is shown below this many contacts.
TrusteeLimit == 10
DefaultFrequency == 72
\* show_freq_menu offers 24, 72, 168, 720; the first two expire within the clock.
FreqInputs == {24, 72}

\* Texts a user types.  BTN_MENU stands for BTN_WILLS / BTN_CONTACTS /
\* BTN_SETTINGS, which the auth conversation treats alike.
BTN_SAFE == "BTN_SAFE"
BTN_MENU == "BTN_MENU"
PasswordInputs == {"pwA"}
CandidateInputs == {"pwA", "pwB"}
\* generate_unlock_key draws 6 random digits; two of its values.
KeyValues == {"123456", "654321"}
KeyInputs == KeyValues

\* Python None for the nullable string columns (no typed text equals it).
None == "None"

hash_password(p) == <<"sha256", p>>
NoHash == <<>>

\* ------------------------------------------------ str / join / split
Digit(d) == CASE d = 0 -> "0" [] d = 1 -> "1" [] d = 2 -> "2" [] d = 3 -> "3"
              [] d = 4 -> "4" [] d = 5 -> "5" [] d = 6 -> "6" [] d = 7 -> "7"
              [] d = 8 -> "8" [] d = 9 -> "9"

RECURSIVE StrOf(_)
\* str(n) for n >= 0, as a sequence of characters.
StrOf(n) == IF n < 10 THEN <<Digit(n)>> ELSE StrOf(n \div 10) \o <<Digit(n % 10)>>

RECURSIVE JoinIds(_)
\* ",".join(map(str, ids))
JoinIds(ids) ==
    IF Len(ids) = 0 THEN <<>>
    ELSE IF Len(ids) = 1 THEN StrOf(ids[1])
    ELSE StrOf(ids[1]) \o <<",">> \o JoinIds(Tail(ids))

RECURSIVE SplitComma(_, _)
\* s.split(","): cur is the piece being read.
SplitComma(s, cur) ==
    IF Len(s) = 0 THEN <<cur>>
    ELSE IF Head(s) = "," THEN <<cur>> \o SplitComma(Tail(s), <<>>)
    ELSE SplitComma(Tail(s), Append(cur, Head(s)))

SeqRange(s) == {s[i] : i \in 1..Len(s)}

\* A substring test, what `str(id) in recipient_ids` would be without the split.
IsSubstring(p, s) ==
    \E i \in 0..(Len(s) - Len(p)) : \A j \in 1..Len(p) : s[i + j] = p[j]

InRecipientsSubstring(cid, recipient_ids) ==
    Len(recipient_ids) > 0 /\ IsSubstring(StrOf(cid), recipient_ids)

\* w.recipient_ids and str(c.contact_chat_id) in w.recipient_ids.split(",")
InRecipients(cid, recipient_ids) ==
    Len(recipient_ids) > 0 /\ StrOf(cid) \in SeqRange(SplitComma(recipient_ids, <<>>))

\* ------------------------------------------------------------------ state
VARIABLES
    users,        \* users table: chat_id -> row (exists = FALSE: no row yet)
    contacts,     \* contacts table: set of [id, owner_chat_id, contact_chat_id]
    wills,        \* wills table: set of [id, user_id, recipient_ids], each with
                  \* `recipients`, the ids the owner selected (history only)
    nextContactId,
    nextWillId,
    now,          \* the clock, in hours
    conv,         \* per user: the states of the four ConversationHandlers
    udata,        \* per user: context.user_data (unlock target, selected); an
                  \* entry no handler reads again before overwriting it is
                  \* cleared when its conversation ends
    buttons,      \* per user: callback buttons the bot has shown the user
    hb,           \* handle_im_safe between its load and its commit
    rc,           \* the check_dead_mans_switch pass in progress: its position,
                  \* what it has loaded, and (history only) what it has sent
                  \* for the current user, whether a send failed, and the
                  \* users its select left out
    epoch,        \* per owner: messages sent to trustees since the owner's last heartbeat
    sent,         \* the messages the last step sent with bot.send_message and
                  \* the interceptor's alert: [to, kind, key, ok], key the
                  \* unlock key the text quotes (None if none), ok whether
                  \* the send succeeded
    last          \* the update the last step handled and its outcome (NoLast
                  \* after a step of the job or of the clock)

vars == <<users, contacts, wills, nextContactId, nextWillId, now, conv, udata,
          buttons, hb, rc, epoch, sent, last>>

\* ------------------------------------------------------------ rows
\* A users row as the column defaults create it (User, func.now()).
NewRow(t) ==
    [exists |-> TRUE, password_hash |-> NoHash, login_attempts |-> 0,
     is_locked |-> FALSE, unlock_key |-> None,
     check_frequency |-> DefaultFrequency, last_active |-> t, status |-> "active"]

NoRow == [NewRow(0) EXCEPT !.exists = FALSE]

\* get_db_user: the stored row, or a new User object that a commit inserts.
get_db_user(u) == IF users[u].exists THEN users[u] ELSE NewRow(now)

\* get_contacts / get_wills: the rows of one owner.
get_contacts(owner) == {c \in contacts : c.owner_chat_id = owner}
get_wills(owner) == {w \in wills : w.user_id = owner}

IdleConv == [setup |-> "idle", auth |-> "idle", unlock |-> "idle", will |-> "idle"]
NoData == [unlock_target |-> 0, selected |-> <<>>]
\* The inline keyboards a user has in its chats: the menus, the accept
\* buttons for owners, the unlock choices; card: the user has posted its
\* invitation card.
NoButtons == [menus |-> FALSE, accept |-> {}, locked |-> {}, card |-> FALSE]
NoHb == [active |-> FALSE, user |-> 0, status |-> "active"]
WillIds == 1..MaxWillRows
\* Messages sent to trustees, counted: expiry notices per trustee, vault
\* deliveries per (trustee, will id).
NoSent == [notices |-> [t \in Users |-> 0],
           deliveries |-> [d \in Users \X WillIds |-> 0]]
IdleRc == [pc |-> "idle", now |-> 0, snap |-> <<>>, todo |-> {}, cur |-> 0,
           contacts |-> {}, wills |-> {}, ctodo |-> {},
           sent |-> NoSent, failed |-> FALSE, failedTo |-> {}, skipped |-> {}]
NoLast == [op |-> "none", by |-> 0, on |-> 0, res |-> "none"]
\* `last` is history only; a specification that starts with LastOff keeps no
\* record of the outcomes.
LastOff == [op |-> "off", by |-> 0, on |-> 0, res |-> "off"]

Init ==
    /\ users = [u \in Users |-> NoRow]
    /\ contacts = {}
    /\ wills = {}
    /\ nextContactId = 1
    /\ nextWillId = 1
    /\ now = 0
    /\ conv = [u \in Users |-> IdleConv]
    /\ udata = [u \in Users |-> NoData]
    /\ buttons = [u \in Users |-> NoButtons]
    /\ hb = NoHb
    /\ rc = IdleRc
    /\ epoch = [u \in Users |-> NoSent]
    /\ sent = {}
    /\ last = NoLast

\* ------------------------------------------------- the lock interceptor
\* A row whose is_locked is never seen set.
NeverLocked(u) == FALSE

\* db_user.is_locked of the caller's row, as global_lock_interceptor and
\* handle_im_safe read it.
IsLocked(u) == users[u].exists /\ users[u].is_locked

\* Handlers run one at a time; handle_im_safe is the only one with a step
\* between its load and its commit.
HandlerFree == ~hb.active

ReplyWith(op, u, on, res, msgs) ==
    /\ last' = IF last = LastOff THEN LastOff
               ELSE [op |-> op, by |-> u, on |-> on, res |-> res]
    /\ sent' = IF last = LastOff THEN {} ELSE msgs

Reply(op, u, on, res) == ReplyWith(op, u, on, res, {})

\* A step of the job, which handles no update and sends msgs.
JobSends(msgs) ==
    /\ last' = IF last = LastOff THEN LastOff ELSE NoLast
    /\ sent' = IF last = LastOff THEN {} ELSE msgs

\* A step that handles no update and sends nothing.
NoReply == JobSends({})

\* A message to user `to`.
Message(to, kind, key, ok) == [to |-> to, kind |-> kind, key |-> key, ok |-> ok]

\* An interceptor that lets every update through.
NeverStopped(u) == TRUE

\* A message reaches the handlers of group 0 only if the interceptor of
\* group -1 (MessageHandler(filters.ALL, ...)) raised no ApplicationHandlerStop.
MessagePassed(u) == ~IsLocked(u)

\* The same for a callback query (CallbackQueryHandler(global_lock_interceptor)).
CallbackPassed(u) == ~IsLocked(u)

\* The updates a user sends: texts and commands, and callback queries.
MessageKinds == CandidateInputs \cup KeyInputs \cup
                {"content", BTN_SAFE, BTN_MENU, "/start", "/unlock", "/cancel"}
CallbackKinds == {"set_freq", "add_will_start", "sel_rec", "save_new_will",
                  "del_will", "do_unbind", "accept_bind", "select_locked"}
UpdateKinds == MessageKinds \cup CallbackKinds

\* global_lock_interceptor on an update of a locked caller: the alert is
\* shown and ApplicationHandlerStop is raised, so no handler of group 0 runs.
global_lock_interceptor(u, kind) ==
    /\ HandlerFree
    /\ IsLocked(u)
    /\ ReplyWith(kind, u, 0, "AccessDenied",
                 IF kind \in MessageKinds
                 THEN {Message(u, "alert", users[u].unlock_key, TRUE)}
                 ELSE {})
    /\ UNCHANGED <<users, contacts, wills, nextContactId, nextWillId, now, conv,
                   udata, buttons, hb, rc, epoch>>

\* ------------------------------------------- dispatch (main, group 0)
\* Which handler of group 0 takes a text message that is no command: the
\* first of setup_handler, auth_handler, unlock_handler, add_will_handler,
\* then the BTN_SAFE handler.
TextGoesTo(u, x) ==
    IF conv[u].setup = "setpw" THEN "set_password_finish"
    ELSE IF conv[u].auth = "verify" THEN "handle_password_verification"
    ELSE IF x = BTN_MENU THEN "request_password_entry"
    ELSE IF conv[u].unlock = "verify" THEN "verify_unlock_key"
    ELSE IF conv[u].will = "content" THEN "receive_will_content"
    ELSE IF x = BTN_SAFE THEN "handle_im_safe"
    ELSE "none"

\* Which handler takes a callback query with data of the given kind.
CallbackGoesTo(u, kind) ==
    IF conv[u].unlock = "select" /\ kind = "select_locked" THEN "handle_locked_user_selection"
    ELSE IF conv[u].will = "idle" /\ kind = "add_will_start" THEN "start_add_will"
    ELSE IF conv[u].will = "recips" THEN "handle_recipient_toggle"
    ELSE IF kind \in {"del_will", "do_unbind", "set_freq"} THEN "handle_global_callbacks"
    ELSE IF kind = "accept_bind" THEN "confirm_bind_callback"
    ELSE "none"

\* ------------------------------------------- setup and authentication
\* start (no deep-link argument): entry point of setup_handler.
Start(u) ==
    /\ HandlerFree /\ u \in Owners
    /\ conv[u].setup = "idle"
    /\ MessagePassed(u)
    /\ IF get_db_user(u).password_hash = NoHash
       THEN /\ conv' = [conv EXCEPT ![u].setup = "setpw"]
            /\ Reply("start", u, 0, "SetPassword")
       ELSE /\ UNCHANGED conv
            /\ Reply("start", u, 0, "Welcome")
    /\ UNCHANGED <<users, contacts, wills, nextContactId, nextWillId, now,
                   udata, buttons, hb, rc, epoch>>

set_password_finish(u, pwd) ==
    /\ HandlerFree /\ u \in Owners /\ pwd \in PasswordInputs
    /\ TextGoesTo(u, pwd) = "set_password_finish"
    /\ MessagePassed(u)
    /\ users' = [users EXCEPT ![u] =
            [get_db_user(u) EXCEPT !.password_hash = hash_password(pwd)]]
    /\ conv' = [conv EXCEPT ![u].setup = "idle"]
    /\ Reply("set_password", u, 0, "PasswordSet")
    /\ UNCHANGED <<contacts, wills, nextContactId, nextWillId, now,
                   udata, buttons, hb, rc, epoch>>

request_password_entry(u) ==
    /\ HandlerFree /\ u \in Owners
    /\ TextGoesTo(u, BTN_MENU) = "request_password_entry"
    /\ MessagePassed(u)
    /\ IF get_db_user(u).password_hash = NoHash
       THEN /\ UNCHANGED conv
            /\ Reply("request_password", u, 0, "NoPassword")
       ELSE /\ conv' = [conv EXCEPT ![u].auth = "verify"]
            /\ Reply("request_password", u, 0, "EnterPassword")
    /\ UNCHANGED <<users, contacts, wills, nextContactId, nextWillId, now,
                   udata, buttons, hb, rc, epoch>>

\* The lock decision with an off-by-one: locks on the sixth failure.
LockReachedLate(remaining) == remaining < 0

\* if remaining <= 0
LockReached(remaining) == remaining <= 0

\* A verification whose lock also marks the row 'inactive'.
VerifyOutcomeExpires(user, input_pwd, key) ==
    IF hash_password(input_pwd) = user.password_hash
    THEN [row |-> [user EXCEPT !.login_attempts = 0], res |-> "Authorized"]
    ELSE LET attempts == user.login_attempts + 1
         IN IF max_attempts - attempts <= 0
            THEN [row |-> [user EXCEPT !.login_attempts = attempts,
                                       !.is_locked = TRUE,
                                       !.unlock_key = key,
                                       !.status = "inactive"],
                  res |-> "LockedOut"]
            ELSE [row |-> [user EXCEPT !.login_attempts = attempts],
                  res |-> "Rejected"]

\* A verification that leaves login_attempts alone on a match.
VerifyOutcomeKeepsCount(user, input_pwd, key) ==
    IF hash_password(input_pwd) = user.password_hash
    THEN [row |-> user, res |-> "Authorized"]
    ELSE LET attempts == user.login_attempts + 1
         IN IF max_attempts - attempts <= 0
            THEN [row |-> [user EXCEPT !.login_attempts = attempts,
                                       !.is_locked = TRUE,
                                       !.unlock_key = key],
                  res |-> "LockedOut"]
            ELSE [row |-> [user EXCEPT !.login_attempts = attempts],
                  res |-> "Rejected"]

\* The row written and the outcome of handle_password_verification for the
\* loaded row `user`, the typed text and the key generate_unlock_key returns.
VerifyOutcome(user, input_pwd, key) ==
    IF hash_password(input_pwd) = user.password_hash
    THEN [row |-> [user EXCEPT !.login_attempts = 0], res |-> "Authorized"]
    ELSE LET attempts == user.login_attempts + 1
             remaining == max_attempts - attempts
         IN IF LockReached(remaining)
            THEN [row |-> [user EXCEPT !.login_attempts = attempts,
                                       !.is_locked = TRUE,
                                       !.unlock_key = key],
                  res |-> "LockedOut"]
            ELSE [row |-> [user EXCEPT !.login_attempts = attempts],
                  res |-> "Rejected"]

\* A lock notice that quotes the key of the locked row.
broadcast_lockout_with_key(user_id, row, failing) ==
    {Message(c.contact_chat_id, "lock_notice", row.unlock_key, c \notin failing) :
        c \in get_contacts(user_id)}

\* broadcast_lockout: one notice per contact of the locked user, naming the
\* user id; a send that fails is passed over.
broadcast_lockout(user_id, row, failing) ==
    {Message(c.contact_chat_id, "lock_notice", None, c \notin failing) :
        c \in get_contacts(user_id)}

\* The count the retry message would show if it showed the failures so far.
RemainingAsCount(row) == row.login_attempts

\* remaining = max_attempts - user.login_attempts, after the increment; the
\* retry message shows it.
Remaining(row) == max_attempts - row.login_attempts

handle_password_verification(u, input_pwd) ==
    /\ HandlerFree /\ u \in Owners
    /\ input_pwd \in CandidateInputs \cup {BTN_SAFE}
    /\ TextGoesTo(u, input_pwd) = "handle_password_verification"
    /\ MessagePassed(u)
    /\ \E key \in KeyValues :
       LET out == VerifyOutcome(get_db_user(u), input_pwd, key) IN
       /\ users' = [users EXCEPT ![u] = out.row]
       /\ conv' = [conv EXCEPT ![u].auth =
                       IF out.res = "Rejected" THEN "verify" ELSE "idle"]
       /\ buttons' = [buttons EXCEPT ![u].menus =
                       @ \/ out.res = "Authorized"]
       /\ \E failing \in SUBSET get_contacts(u) :
            /\ out.res # "LockedOut" => failing = {}
            /\ ReplyWith("verify", u,
                         IF out.res = "Rejected" THEN Remaining(out.row) ELSE 0,
                         out.res,
                         IF out.res = "LockedOut"
                         THEN broadcast_lockout(u, out.row, failing)
                         ELSE {})
       /\ UNCHANGED <<contacts, wills, nextContactId, nextWillId, now,
                      udata, hb, rc, epoch>>

\* cancel_action as the fallback of the first conversation that is active.
cancel_action(u) ==
    /\ HandlerFree
    /\ \/ conv[u].auth # "idle" \/ conv[u].unlock # "idle" \/ conv[u].will # "idle"
    /\ MessagePassed(u)
    /\ conv' = [conv EXCEPT ![u] =
            IF conv[u].auth # "idle" THEN [@ EXCEPT !.auth = "idle"]
            ELSE IF conv[u].unlock # "idle" THEN [@ EXCEPT !.unlock = "idle"]
            ELSE [@ EXCEPT !.will = "idle"]]
    /\ Reply("cancel", u, 0, "Cancelled")
    /\ UNCHANGED <<users, contacts, wills, nextContactId, nextWillId, now,
                   udata, buttons, hb, rc, epoch>>

\* ------------------------------------------------------------ heartbeat
\* handle_im_safe up to `u = await get_db_user(...)`: the row is loaded,
\* its status remembered by the session.
handle_im_safe(u) ==
    /\ HandlerFree /\ u \in Owners
    /\ TextGoesTo(u, BTN_SAFE) = "handle_im_safe"
    /\ MessagePassed(u)
    /\ IF IsLocked(u)
       THEN /\ Reply("heartbeat", u, 0, "Ignored")
            /\ UNCHANGED hb
       ELSE /\ hb' = [active |-> TRUE, user |-> u,
                      status |-> get_db_user(u).status]
            /\ Reply("heartbeat", u, 0, "Loading")
    /\ UNCHANGED <<users, contacts, wills, nextContactId, nextWillId, now,
                   conv, udata, buttons, rc, epoch>>

\* u.status = 'active'; commit: the UPDATE names status only if 'active'
\* differs from the value the session loaded.
HeartbeatStatus(stored, loaded) == IF loaded # "active" THEN "active" ELSE stored

\* A heartbeat that takes the user for protected whatever its contacts.
NotProtectedNever(cs) == FALSE

\* if not contacts
NotProtected(cs) == cs = {}

\* handle_im_safe from get_contacts to the commit.
handle_im_safe_commit ==
    /\ hb.active
    /\ LET u == hb.user
           user == get_db_user(u)
       IN IF NotProtected(get_contacts(u))
          THEN /\ Reply("heartbeat", u, 0, "NotProtected")
               /\ UNCHANGED <<users, epoch>>
          ELSE /\ users' = [users EXCEPT ![u] =
                       [user EXCEPT !.last_active = now,
                                    !.status = HeartbeatStatus(user.status, hb.status)]]
               /\ epoch' = [epoch EXCEPT ![u] = NoSent]
               /\ Reply("heartbeat", u, 0, "Confirmed")
    /\ hb' = NoHb
    /\ UNCHANGED <<contacts, wills, nextContactId, nextWillId, now, conv, udata,
                   buttons, rc>>

\* ------------------------------------------------------------- settings
\* handle_global_callbacks, set_freq_<hours>.
set_freq(u, hours) ==
    /\ HandlerFree /\ u \in Owners /\ hours \in FreqInputs
    /\ buttons[u].menus
    /\ CallbackGoesTo(u, "set_freq") = "handle_global_callbacks"
    /\ CallbackPassed(u)
    /\ users' = [users EXCEPT ![u] =
            [get_db_user(u) EXCEPT !.check_frequency = hours]]
    /\ Reply("set_freq", u, 0, "Updated")
    /\ UNCHANGED <<contacts, wills, nextContactId, nextWillId, now, conv,
                   udata, buttons, hb, rc, epoch>>

\* -------------------------------------------------------- trustee links
\* inline_query_handler, query "invite": the card with the link
\* start=connect_<caller id> is offered and posted.  Inline queries do not
\* pass global_lock_interceptor.
inline_query_handler(u) ==
    /\ HandlerFree /\ u \in Owners
    /\ buttons' = [buttons EXCEPT ![u].card = TRUE]
    /\ Reply("inline_query", u, 0, "Invitation")
    /\ UNCHANGED <<users, contacts, wills, nextContactId, nextWillId, now,
                   conv, udata, hb, rc, epoch>>

\* start with the deep-link argument connect_<target_id>.
start_connect(u, target_id) ==
    /\ HandlerFree /\ u \in Helpers /\ target_id \in Owners \cup {u}
    /\ conv[u].setup = "idle"
    /\ MessagePassed(u)
    /\ IF target_id = u
       THEN /\ Reply("start_connect", u, target_id, "SelfRejected")
            /\ UNCHANGED buttons
       ELSE IF \E c \in contacts : /\ c.owner_chat_id = target_id
                                   /\ c.contact_chat_id = u
       THEN /\ Reply("start_connect", u, target_id, "AlreadyTrustee")
            /\ UNCHANGED buttons
       ELSE /\ Reply("start_connect", u, target_id, "Invited")
            /\ buttons' = [buttons EXCEPT ![u].accept = @ \cup {target_id}]
    /\ UNCHANGED <<users, contacts, wills, nextContactId, nextWillId, now,
                   conv, udata, hb, rc, epoch>>

\* An id of the contacts table is left for a row of a helper (MaxContactRows
\* rows beside those of the Crowd).
ContactIdsLeft ==
    nextContactId <= MaxContactRows +
                     Cardinality({c \in contacts : c.contact_chat_id \in Crowd})

\* The end of confirm_bind_callback: the caller's message is edited and the
\* requester is told, a failed send being passed over.
Accepted(u, requester_id) ==
    \E ok \in BOOLEAN :
        ReplyWith("accept_bind", u, requester_id, "Bound",
                  {Message(requester_id, "accepted", None, ok)})

\* An existence test that finds no row.
LinkNeverExists(owner, contact) == FALSE

\* exists = select(EmergencyContact).where(owner_chat_id == requester_id,
\* contact_chat_id == effective_user.id)
LinkExists(owner, contact) ==
    \E c \in contacts : /\ c.owner_chat_id = owner
                         /\ c.contact_chat_id = contact

\* confirm_bind_callback, accept_bind_<requester_id>.  The insert needs the
\* owner's users row (ForeignKey('users.chat_id')).
confirm_bind_callback(u, requester_id) ==
    /\ HandlerFree /\ u \in Helpers
    /\ requester_id \in buttons[u].accept
    /\ CallbackGoesTo(u, "accept_bind") = "confirm_bind_callback"
    /\ CallbackPassed(u)
    /\ IF LinkExists(requester_id, u)
       THEN /\ Accepted(u, requester_id)
            /\ UNCHANGED <<contacts, nextContactId>>
       ELSE IF ~users[requester_id].exists
       THEN /\ Reply("accept_bind", u, requester_id, "IntegrityError")
            /\ UNCHANGED <<contacts, nextContactId>>
       ELSE /\ ContactIdsLeft
            /\ contacts' = contacts \cup
                 {[id |-> nextContactId, owner_chat_id |-> requester_id,
                   contact_chat_id |-> u]}
            /\ nextContactId' = nextContactId + 1
            /\ Accepted(u, requester_id)
    /\ UNCHANGED <<users, wills, nextWillId, now, conv, udata, buttons,
                   hb, rc, epoch>>

\* show_contacts_menu: the keyboard of the contacts menu, an unbind button
\* per contact row and the invite button.
show_contacts_menu(u) ==
    [unbind |-> {c.id : c \in get_contacts(u)},
     invite |-> Cardinality(get_contacts(u)) < TrusteeLimit]

\* handle_global_callbacks, do_unbind_<cid>: c = session.get(EmergencyContact,
\* cid); if c, the contact is told and the row deleted.  The caller is any
\* user and cid is whatever the callback data carries.
do_unbind_row(u, cid) ==
    /\ HandlerFree
    /\ CallbackGoesTo(u, "do_unbind") = "handle_global_callbacks"
    /\ CallbackPassed(u)
    /\ contacts' = {c \in contacts : c.id # cid}
    /\ \E ok \in BOOLEAN :
         ReplyWith("do_unbind", u, 0, "Unbound",
                   {Message(c.contact_chat_id, "unbound", None, ok) :
                        c \in {x \in contacts : x.id = cid}})
    /\ UNCHANGED <<users, wills, nextContactId, nextWillId, now, conv,
                   udata, buttons, hb, rc, epoch>>

\* do_unbind_<cid> pressed in the caller's own contacts menu.
do_unbind(u, cid) ==
    /\ u \in Owners
    /\ buttons[u].menus
    /\ cid \in show_contacts_menu(u).unbind
    /\ do_unbind_row(u, cid)

\* ---------------------------------------------------------------- vault
\* start_add_will: entry point of add_will_handler, from the wills menu.
start_add_will(u) ==
    /\ HandlerFree /\ u \in Owners
    /\ buttons[u].menus
    /\ nextWillId <= MaxWillRows
    /\ CallbackGoesTo(u, "add_will_start") = "start_add_will"
    /\ CallbackPassed(u)
    /\ conv' = [conv EXCEPT ![u].will = "content"]
    /\ Reply("add_will", u, 0, "SendContent")
    /\ UNCHANGED <<users, contacts, wills, nextContactId, nextWillId, now,
                   udata, buttons, hb, rc, epoch>>

\* render_recipient_selector: the conversation ends when there is no contact.
RecipientSelectorState(u) == IF get_contacts(u) = {} THEN "idle" ELSE "recips"

\* receive_will_content: a button text ends the conversation, anything else
\* is encrypted and kept in user_data with an empty selection.
receive_will_content(u, text) ==
    /\ HandlerFree /\ u \in Owners /\ text \in {"content", BTN_SAFE}
    /\ TextGoesTo(u, text) = "receive_will_content"
    /\ MessagePassed(u)
    /\ IF text = BTN_SAFE
       THEN /\ conv' = [conv EXCEPT ![u].will = "idle"]
            /\ UNCHANGED udata
            /\ Reply("will_content", u, 0, "Ended")
       ELSE /\ udata' = [udata EXCEPT ![u].selected = <<>>]
            /\ conv' = [conv EXCEPT ![u].will = RecipientSelectorState(u)]
            /\ Reply("will_content", u, 0, "Received")
    /\ UNCHANGED <<users, contacts, wills, nextContactId, nextWillId, now,
                   buttons, hb, rc, epoch>>

\* sel.remove(cid) if cid in sel else sel.append(cid)
Toggle(sel, cid) ==
    IF cid \in SeqRange(sel) THEN SelectSeq(sel, LAMBDA x : x # cid)
    ELSE Append(sel, cid)

\* handle_recipient_toggle, sel_rec_<contact_chat_id>: a button of the selector.
select_recipient(u, cid) ==
    /\ HandlerFree /\ u \in Owners
    /\ \E c \in get_contacts(u) : c.contact_chat_id = cid
    /\ CallbackGoesTo(u, "sel_rec") = "handle_recipient_toggle"
    /\ CallbackPassed(u)
    /\ udata' = [udata EXCEPT ![u].selected = Toggle(@, cid)]
    /\ conv' = [conv EXCEPT ![u].will = RecipientSelectorState(u)]
    /\ Reply("select_recipient", u, cid, "Toggled")
    /\ UNCHANGED <<users, contacts, wills, nextContactId, nextWillId, now,
                   buttons, hb, rc, epoch>>

\* handle_recipient_toggle, save_new_will.
save_new_will(u) ==
    /\ HandlerFree /\ u \in Owners
    /\ CallbackGoesTo(u, "save_new_will") = "handle_recipient_toggle"
    /\ CallbackPassed(u)
    /\ nextWillId <= MaxWillRows
    /\ wills' = wills \cup
         {[id |-> nextWillId, user_id |-> u,
           recipient_ids |-> JoinIds(udata[u].selected),
           recipients |-> SeqRange(udata[u].selected)]}
    /\ nextWillId' = nextWillId + 1
    /\ conv' = [conv EXCEPT ![u].will = "idle"]
    /\ udata' = [udata EXCEPT ![u].selected = <<>>]
    /\ Reply("save_will", u, 0, "Saved")
    /\ UNCHANGED <<users, contacts, nextContactId, now, buttons,
                   hb, rc, epoch>>

\* handle_global_callbacks, del_will_<will_id>: delete(Will).where(Will.id ==
\* will_id).  The caller is any user and will_id is whatever the callback
\* data carries.
del_will_row(u, will_id) ==
    /\ HandlerFree
    /\ CallbackGoesTo(u, "del_will") = "handle_global_callbacks"
    /\ CallbackPassed(u)
    /\ wills' = {w \in wills : w.id # will_id}
    /\ Reply("del_will", u, 0, "Deleted")
    /\ UNCHANGED <<users, contacts, nextContactId, nextWillId, now, conv,
                   udata, buttons, hb, rc, epoch>>

\* del_will_<will_id> pressed in the caller's own wills menu.
del_will(u, will_id) ==
    /\ u \in Owners
    /\ buttons[u].menus
    /\ \E w \in get_wills(u) : w.id = will_id
    /\ del_will_row(u, will_id)

\* --------------------------------------------------------------- unlock
\* The entrustments of the caller, locked or not.
AllEntrustments(executor_id) ==
    {e \in contacts : e.contact_chat_id = executor_id}

\* start_remote_unlock: the entrustments of the caller whose owner has a row
\* and is locked; locked_users has one entry per such entrustment.
LockedEntrustments(executor_id) ==
    {e \in contacts :
        /\ e.contact_chat_id = executor_id
        /\ users[e.owner_chat_id].exists
        /\ users[e.owner_chat_id].is_locked}

\* The users on the keyboard of start_remote_unlock.
LockedUsersOf(executor_id) ==
    {e.owner_chat_id : e \in LockedEntrustments(executor_id)}

start_remote_unlock(u) ==
    /\ HandlerFree /\ u \in Helpers
    /\ conv[u].unlock = "idle"
    /\ MessagePassed(u)
    /\ IF LockedUsersOf(u) = {}
       THEN /\ Reply("request_unlock", u, 0, "NothingLocked")
            /\ UNCHANGED <<conv, buttons>>
       ELSE /\ conv' = [conv EXCEPT ![u].unlock = "select"]
            /\ buttons' = [buttons EXCEPT ![u].locked = @ \cup LockedUsersOf(u)]
            /\ Reply("request_unlock", u, Cardinality(LockedEntrustments(u)),
                     "Choose")
    /\ UNCHANGED <<users, contacts, wills, nextContactId, nextWillId, now,
                   udata, hb, rc, epoch>>

\* handle_locked_user_selection, select_locked_<chat_id>.  The result of
\* start_remote_unlock above carries len(locked_users), as the reply does.
handle_locked_user_selection(u, target_id) ==
    /\ HandlerFree /\ u \in Helpers
    /\ target_id \in buttons[u].locked
    /\ CallbackGoesTo(u, "select_locked") = "handle_locked_user_selection"
    /\ CallbackPassed(u)
    /\ udata' = [udata EXCEPT ![u].unlock_target = target_id]
    /\ conv' = [conv EXCEPT ![u].unlock = "verify"]
    /\ Reply("select_locked", u, target_id, "EnterKey")
    /\ UNCHANGED <<users, contacts, wills, nextContactId, nextWillId, now,
                   buttons, hb, rc, epoch>>

\* An unlock that takes no key.
UnlockOutcomeRefuses(target_user, input_key) ==
    [row |-> target_user, res |-> "KeyRejected"]

\* An unlock that leaves login_attempts as it was.
UnlockOutcomeKeepsAttempts(target_user, input_key) ==
    IF input_key = target_user.unlock_key
    THEN [row |-> [target_user EXCEPT !.is_locked = FALSE, !.unlock_key = None,
                                      !.password_hash = NoHash],
          res |-> "Unlocked"]
    ELSE [row |-> target_user, res |-> "KeyRejected"]

\* An unlock that also sets the status back to 'active'.
UnlockOutcomeRevives(target_user, input_key) ==
    IF input_key = target_user.unlock_key
    THEN [row |-> [target_user EXCEPT !.is_locked = FALSE, !.login_attempts = 0,
                                      !.unlock_key = None, !.password_hash = NoHash,
                                      !.status = "active"],
          res |-> "Unlocked"]
    ELSE [row |-> target_user, res |-> "KeyRejected"]

\* An unlock that leaves the used key in the row.
UnlockOutcomeKeepsKey(target_user, input_key) ==
    IF input_key = target_user.unlock_key
    THEN [row |-> [target_user EXCEPT !.is_locked = FALSE, !.login_attempts = 0,
                                      !.password_hash = NoHash],
          res |-> "Unlocked"]
    ELSE [row |-> target_user, res |-> "KeyRejected"]

\* An unlock that keeps the old password hash.
UnlockOutcomeKeepsHash(target_user, input_key) ==
    IF input_key = target_user.unlock_key
    THEN [row |-> [target_user EXCEPT !.is_locked = FALSE, !.login_attempts = 0,
                                      !.unlock_key = None],
          res |-> "Unlocked"]
    ELSE [row |-> target_user, res |-> "KeyRejected"]

\* An unlock that counts wrong keys in login_attempts.
UnlockOutcomeCounts(target_user, input_key) ==
    IF input_key = target_user.unlock_key
    THEN [row |-> [target_user EXCEPT !.is_locked = FALSE, !.login_attempts = 0,
                                      !.unlock_key = None, !.password_hash = NoHash],
          res |-> "Unlocked"]
    ELSE [row |-> [target_user EXCEPT !.login_attempts = 0], res |-> "KeyRejected"]

\* verify_unlock_key: the row written (only on a match is it committed) and
\* the outcome.
UnlockOutcome(target_user, input_key) ==
    IF input_key = target_user.unlock_key
    THEN [row |-> [target_user EXCEPT !.is_locked = FALSE, !.login_attempts = 0,
                                      !.unlock_key = None, !.password_hash = NoHash],
          res |-> "Unlocked"]
    ELSE [row |-> target_user, res |-> "KeyRejected"]

verify_unlock_key(u, input_key) ==
    /\ HandlerFree /\ u \in Helpers /\ input_key \in KeyInputs
    /\ TextGoesTo(u, input_key) = "verify_unlock_key"
    /\ MessagePassed(u)
    /\ LET target_id == udata[u].unlock_target
           out == UnlockOutcome(get_db_user(target_id), input_key)
       IN /\ users' = IF users[target_id].exists
                      THEN [users EXCEPT ![target_id] = out.row]
                      ELSE users
          /\ conv' = [conv EXCEPT ![u].unlock = "idle"]
          /\ udata' = [udata EXCEPT ![u].unlock_target = 0]
          /\ ReplyWith("attempt_unlock", u, target_id, out.res,
                       IF out.res = "Unlocked"
                       THEN {Message(target_id, "unlocked", None, TRUE)}
                       ELSE {})
          /\ UNCHANGED <<contacts, wills, nextContactId, nextWillId, now,
                         buttons, hb, rc, epoch>>

\* ------------------------------------------ the scheduler job (RunCheck)
\* The expiry test with check_frequency taken for days.
IsExpiredInDays(delta_hours, check_frequency) == delta_hours > check_frequency * 24

\* delta_hours > user.check_frequency
IsExpired(delta_hours, check_frequency) == delta_hours > check_frequency

\* select(User).where(User.status == 'active')
CheckedUsers == {u \in Users : users[u].exists /\ users[u].status = "active"}

\* The job starts: the rows are loaded once, `now` is read once.
RunStart ==
    /\ rc.pc = "idle"
    /\ rc' = [IdleRc EXCEPT !.pc = "loop", !.now = now, !.todo = CheckedUsers,
                            !.skipped = {u \in Users : users[u].exists} \ CheckedUsers,
                            !.snap = [u \in CheckedUsers |->
                                [last_active |-> users[u].last_active,
                                 check_frequency |-> users[u].check_frequency,
                                 is_locked |-> users[u].is_locked]]]
    /\ UNCHANGED <<users, contacts, wills, nextContactId, nextWillId, now, conv,
                   udata, buttons, hb, epoch>>
    /\ NoReply

\* for user in users: the expiry decision on the loaded row; an expired user's
\* contacts are loaded.  (A user past 80% of the threshold is sent a reminder,
\* which changes no state.)
RunNext(u) ==
    /\ rc.pc = "loop"
    /\ u \in rc.todo
    /\ LET delta_hours == rc.now - rc.snap[u].last_active
           freq == rc.snap[u].check_frequency
       IN IF IsExpired(delta_hours, freq)
          THEN rc' = [rc EXCEPT !.cur = u,
                                !.contacts = get_contacts(u),
                                !.ctodo = get_contacts(u),
                                !.wills = {},
                                !.sent = NoSent,
                                !.failed = FALSE,
                                !.failedTo = {},
                                !.pc = IF get_contacts(u) = {} THEN "commit" ELSE "wills"]
          ELSE rc' = [rc EXCEPT !.todo = @ \ {u},
                                !.snap = [x \in rc.todo \ {u} |-> rc.snap[x]]]
    /\ UNCHANGED <<users, contacts, wills, nextContactId, nextWillId, now, conv,
                   udata, buttons, hb, epoch>>
    /\ NoReply

\* wills = await get_wills(session, user.chat_id)
RunLoadWills ==
    /\ rc.pc = "wills"
    /\ rc' = [rc EXCEPT !.wills = get_wills(rc.cur), !.pc = "fanout"]
    /\ UNCHANGED <<users, contacts, wills, nextContactId, nextWillId, now, conv,
                   udata, buttons, hb, epoch>>
    /\ NoReply

\* The wills of the pass sent to one contact, were the contact not compared
\* with the recipients at all.
WillsForAny(c, ws) == ws

\* The wills of the pass sent to one contact, with a substring test.
WillsForSubstring(c, ws) ==
    {w \in ws : InRecipientsSubstring(c.contact_chat_id, w.recipient_ids)}

\* The wills of the pass that go to contact c.
WillsFor(c, ws) == {w \in ws : InRecipients(c.contact_chat_id, w.recipient_ids)}

AddSent(acc, t, noticed, willIds) ==
    [notices |-> [x \in Users |->
                    acc.notices[x] + (IF noticed /\ x = t THEN 1 ELSE 0)],
     deliveries |-> [d \in Users \X WillIds |->
                    acc.deliveries[d] +
                      (IF d[1] = t /\ d[2] \in willIds THEN 1 ELSE 0)]]

\* A loop over the contacts that a failed notice ends.
ContactsLeftAbort(ctodo, c, noticeOk) == IF noticeOk THEN ctodo \ {c} ELSE {}

\* The contacts still to come after c: the exceptions of a contact are
\* caught inside the loop.
ContactsLeft(ctodo, c, noticeOk) == ctodo \ {c}

\* for c in contacts: the notice, then the wills addressed to c.  A notice
\* that fails skips the contact's wills; a will that fails is logged and the
\* loop goes on.
RunFanout(c, noticeOk, failing) ==
    /\ rc.pc = "fanout"
    /\ c \in rc.ctodo
    /\ failing \subseteq WillsFor(c, rc.wills)
    /\ noticeOk \/ failing = {}
    /\ LET t == c.contact_chat_id
           done == IF noticeOk
                   THEN {w.id : w \in WillsFor(c, rc.wills) \ failing}
                   ELSE {}
           left == ContactsLeft(rc.ctodo, c, noticeOk)
       IN /\ rc' = [rc EXCEPT !.ctodo = left,
                              !.sent = AddSent(@, t, noticeOk, done),
                              !.failed = @ \/ ~noticeOk \/ failing # {},
                              !.failedTo = IF ~noticeOk \/ failing # {}
                                           THEN @ \cup {t} ELSE @,
                              !.pc = IF left = {} THEN "commit" ELSE "fanout"]
          /\ epoch' = [epoch EXCEPT ![rc.cur] = AddSent(@, t, noticeOk, done)]
          /\ JobSends({Message(t, "expiry_notice", None, noticeOk)} \cup
                      {Message(t, "will", None, TRUE) : w \in done})
    /\ UNCHANGED <<users, contacts, wills, nextContactId, nextWillId, now, conv,
                   udata, buttons, hb>>

\* A pass that forgets to mark the user.
ExpiredStatusKept == "active"

\* user.status = 'inactive'
ExpiredStatus == "inactive"

\* session.add(user); await session.commit(): the UPDATE names status only.
RunCommit ==
    /\ rc.pc = "commit"
    /\ users' = [users EXCEPT ![rc.cur].status = ExpiredStatus]
    /\ rc' = [IdleRc EXCEPT !.pc = "loop", !.now = rc.now,
                            !.skipped = rc.skipped,
                            !.todo = rc.todo \ {rc.cur},
                            !.snap = [x \in rc.todo \ {rc.cur} |-> rc.snap[x]]]
    /\ UNCHANGED <<contacts, wills, nextContactId, nextWillId, now, conv,
                   udata, buttons, hb, epoch>>
    /\ NoReply

\* The loop is over.
RunEnd ==
    /\ rc.pc = "loop"
    /\ rc.todo = {}
    /\ rc' = IdleRc
    /\ UNCHANGED <<users, contacts, wills, nextContactId, nextWillId, now, conv,
                   udata, buttons, hb, epoch>>
    /\ NoReply

\* ---------------------------------------------------------------- clock
Tick ==
    /\ now < MaxTicks * TickHours
    /\ now' = now + TickHours
    /\ UNCHANGED <<users, contacts, wills, nextContactId, nextWillId, conv,
                   udata, buttons, hb, rc, epoch>>
    /\ NoReply

\* ----------------------------------------------------------------- spec
\* The updates of one user, by the part of the bot that handles them.
AuthUpdate(u) ==
    \/ Start(u)
    \/ \E pwd \in PasswordInputs : set_password_finish(u, pwd)
    \/ request_password_entry(u)
    \/ \E x \in CandidateInputs \cup {BTN_SAFE} : handle_password_verification(u, x)
    \/ cancel_action(u)

LivenessUpdate(u) ==
    \/ handle_im_safe(u)
    \/ \E h \in FreqInputs : set_freq(u, h)

\* The invitation alone, without unbinding.
BindUpdate(u) ==
    \/ \E t \in Users : start_connect(u, t)
    \/ \E r \in Users : confirm_bind_callback(u, r)

TrusteeUpdate(u) ==
    \/ \E t \in Users : start_connect(u, t)
    \/ \E r \in Users : confirm_bind_callback(u, r)
    \/ \E cid \in 1..MaxContactRows : do_unbind(u, cid)

VaultUpdate(u) ==
    \/ start_add_will(u)
    \/ \E x \in {"content", BTN_SAFE} : receive_will_content(u, x)
    \/ \E cid \in Users : select_recipient(u, cid)
    \/ save_new_will(u)
    \/ \E w \in WillIds : del_will(u, w)

UnlockUpdate(u) ==
    \/ start_remote_unlock(u)
    \/ \E t \in Users : handle_locked_user_selection(u, t)
    \/ \E k \in KeyInputs : verify_unlock_key(u, k)

InterceptedUpdate(u) == \E kind \in UpdateKinds : global_lock_interceptor(u, kind)

\* One step of the scheduler job.
Job ==
    \/ RunStart
    \/ \E u \in Users : RunNext(u)
    \/ RunLoadWills
    \/ \E c \in rc.ctodo, ok \in BOOLEAN, f \in SUBSET rc.wills : RunFanout(c, ok, f)
    \/ RunCommit
    \/ RunEnd

Next ==
    \/ \E u \in Users : InterceptedUpdate(u)
    \/ \E u \in Users : AuthUpdate(u)
    \/ \E u \in Users : LivenessUpdate(u)
    \/ handle_im_safe_commit
    \/ \E u \in Users : TrusteeUpdate(u)
    \/ \E u \in Users : VaultUpdate(u)
    \/ \E u \in Users : UnlockUpdate(u)
    \/ Job
    \/ Tick

Spec == Init /\ [][Next]_vars

LockNext ==
    \/ \E u \in Users : InterceptedUpdate(u)
    \/ \E u \in Users : AuthUpdate(u)
    \/ \E u \in Users : LivenessUpdate(u)
    \/ handle_im_safe_commit
    \/ \E u \in Users : TrusteeUpdate(u)
    \/ \E u \in Users : VaultUpdate(u)
    \/ \E u \in Unlockers : UnlockUpdate(u)

LockSpec == Init /\ [][LockNext]_vars

\* The owner has set a password and has opened the menus once.
EnrolledState ==
    /\ users = [u \in Users |->
                  IF u \in Owners
                  THEN [NewRow(0) EXCEPT !.password_hash = hash_password("pwA")]
                  ELSE NoRow]
    /\ contacts = {}
    /\ wills = {}
    /\ nextContactId = 1
    /\ nextWillId = 1
    /\ now = 0
    /\ conv = [u \in Users |-> IdleConv]
    /\ udata = [u \in Users |-> NoData]
    /\ buttons = [u \in Users |->
                    IF u \in Owners THEN [NoButtons EXCEPT !.menus = TRUE]
                    ELSE NoButtons]
    /\ hb = NoHb
    /\ rc = IdleRc
    /\ epoch = [u \in Users |-> NoSent]
    /\ sent = {}

InitEnrolled == EnrolledState /\ last = LastOff

CheckNext ==
    \/ \E u \in Users : LivenessUpdate(u)
    \/ handle_im_safe_commit
    \/ \E u \in Users : TrusteeUpdate(u)
    \/ \E u \in Users : VaultUpdate(u)
    \/ Job
    \/ Tick

CheckSpec == InitEnrolled /\ [][CheckNext]_vars

\* scheduler.add_job(check_dead_mans_switch, 'interval', minutes=30): the job
\* is started again and again, and the event loop runs each pass to its end.
LiveSpec == InitEnrolled /\ [][CheckNext]_vars /\ WF_vars(Job)

\* Lock, recovery and the dead-man's switch together, outcomes recorded: one
\* owner and one helper, no vault and no unbinding.
SwitchNext ==
    \/ \E u \in Users : InterceptedUpdate(u)
    \/ \E u \in Users : AuthUpdate(u)
    \/ \E u \in Users : LivenessUpdate(u)
    \/ handle_im_safe_commit
    \/ \E u \in Unlockers : BindUpdate(u)
    \/ \E u \in Unlockers : UnlockUpdate(u)
    \/ Job
    \/ Tick

SwitchInit == EnrolledState /\ last = NoLast

SwitchSpec == SwitchInit /\ [][SwitchNext]_vars

\* Lock and recovery with every helper running the /unlock flow: no vault,
\* no heartbeat, no job.
RecoverNext ==
    \/ \E u \in Users : InterceptedUpdate(u)
    \/ \E u \in Users : AuthUpdate(u)
    \/ \E u \in Users : TrusteeUpdate(u)
    \/ \E u \in Users : UnlockUpdate(u)

RecoverSpec == Init /\ [][RecoverNext]_vars

\* A row locked by handle_password_verification with key k.
LockedRow(k) ==
    [NewRow(0) EXCEPT !.password_hash = hash_password("pwA"),
                      !.login_attempts = max_attempts,
                      !.is_locked = TRUE, !.unlock_key = k]

\* Owner 1 and its only trustee 2 have both locked themselves out.
BothLocked ==
    /\ users = [u \in Users |->
                  IF u = 1 THEN LockedRow("123456")
                  ELSE IF u = 2 THEN LockedRow("654321")
                  ELSE NoRow]
    /\ contacts = {[id |-> 1, owner_chat_id |-> 1, contact_chat_id |-> 2]}
    /\ wills = {}
    /\ nextContactId = 2
    /\ nextWillId = 1
    /\ now = 0
    /\ conv = [u \in Users |-> IdleConv]
    /\ udata = [u \in Users |-> NoData]
    /\ buttons = [u \in Users |->
                    IF u \in Owners THEN [NoButtons EXCEPT !.menus = TRUE]
                    ELSE NoButtons]
    /\ hb = NoHb
    /\ rc = IdleRc
    /\ epoch = [u \in Users |-> NoSent]
    /\ sent = {}
    /\ last = NoLast

\* The steps of a helper h that bring owner o nearer to its unlock: the deep
\* link, the acceptance, /unlock, the choice of o, and o's key.
Invite(h, o) == start_connect(h, o) /\ o \in buttons'[h].accept
Accept(h, o) == confirm_bind_callback(h, o) /\ contacts' # contacts
Ask(h) == start_remote_unlock(h) /\ conv'[h].unlock = "select"
Pick(h, o) == handle_locked_user_selection(h, o) /\ users[o].is_locked
Rescue(h, o) ==
    /\ users[o].is_locked
    /\ \E k \in KeyInputs : verify_unlock_key(h, k)
    /\ ~users'[o].is_locked

\* The helpers keep trying: each of these steps, whenever it is possible
\* again and again, is taken.  No step is forced that the dispatcher does
\* not offer, so every finite run of RecoverNext has a continuation that
\* meets the condition.
HelpersPersist ==
    \A o \in Owners :
        /\ SF_vars(\E h \in Helpers : Invite(h, o))
        /\ SF_vars(\E h \in Helpers : Accept(h, o))
        /\ SF_vars(\E h \in Helpers : Ask(h))
        /\ SF_vars(\E h \in Helpers : Pick(h, o))
        /\ SF_vars(\E h \in Helpers : Rescue(h, o))

RescueSpec == (Init \/ BothLocked) /\ [][RecoverNext]_vars /\ HelpersPersist

\* Owner 1 is enrolled and the nine users of the Crowd are its trustees.
Crowded ==
    /\ users = [u \in Users |->
                  IF u \in Owners
                  THEN [NewRow(0) EXCEPT !.password_hash = hash_password("pwA")]
                  ELSE NoRow]
    /\ contacts = {[id |-> t - 2, owner_chat_id |-> 1, contact_chat_id |-> t] :
                        t \in Crowd}
    /\ wills = {}
    /\ nextContactId = Cardinality(Crowd) + 1
    /\ nextWillId = 1
    /\ now = 0
    /\ conv = [u \in Users |-> IdleConv]
    /\ udata = [u \in Users |-> NoData]
    /\ buttons = [u \in Users |->
                    IF u \in Owners THEN [NoButtons EXCEPT !.menus = TRUE]
                    ELSE NoButtons]
    /\ hb = NoHb
    /\ rc = IdleRc
    /\ epoch = [u \in Users |-> NoSent]
    /\ sent = {}
    /\ last = NoLast

\* Invitations, the lock and the unlock; no unbinding.
BindNext ==
    \/ \E u \in Users : InterceptedUpdate(u)
    \/ \E u \in Users : AuthUpdate(u)
    \/ \E u \in Users : BindUpdate(u)
    \/ \E u \in Unlockers : UnlockUpdate(u)

BindSpec == Crowded /\ [][BindNext]_vars

\* Trustee links and the vault, with callback queries whose data names any
\* row: Telegram does not bind the data of a callback query to a button the
\* caller was shown.
AnyDataNext ==
    \/ \E u \in Users : TrusteeUpdate(u)
    \/ \E u \in Users : VaultUpdate(u)
    \/ \E u \in Users, cid \in 1..MaxContactRows : do_unbind_row(u, cid)
    \/ \E u \in Users, w \in WillIds : del_will_row(u, w)

AnyDataSpec == SwitchInit /\ [][AnyDataNext]_vars

\* Enrolment, invitations issued by the owner, links and the lock.
InviteNext ==
    \/ \E u \in Users : InterceptedUpdate(u)
    \/ \E u \in Users : AuthUpdate(u)
    \/ \E u \in Users : inline_query_handler(u)
    \/ \E u \in Users : TrusteeUpdate(u)
    \/ \E u \in Unlockers : UnlockUpdate(u)

InviteSpec == Init /\ [][InviteNext]_vars

\* Users 1 and 2 are both principals with a threshold of 24 hours; 2 and 12
\* are trustees of 1, 12 is the trustee of 2; 1 has a will for 2 and 12.
TwoPrincipals ==
    /\ users = [u \in Users |->
                  IF u \in {1, 2}
                  THEN [NewRow(0) EXCEPT !.password_hash = hash_password("pwA"),
                                         !.check_frequency = 24]
                  ELSE NoRow]
    /\ contacts = {[id |-> 1, owner_chat_id |-> 1, contact_chat_id |-> 2],
                   [id |-> 2, owner_chat_id |-> 1, contact_chat_id |-> 12],
                   [id |-> 3, owner_chat_id |-> 2, contact_chat_id |-> 12]}
    /\ wills = {[id |-> 1, user_id |-> 1,
                 recipient_ids |-> JoinIds(<<2, 12>>),
                 recipients |-> {2, 12}]}
    /\ nextContactId = 4
    /\ nextWillId = 2
    /\ now = 0
    /\ conv = [u \in Users |-> IdleConv]
    /\ udata = [u \in Users |-> NoData]
    /\ buttons = [u \in Users |->
                    IF u \in {1, 2} THEN [NoButtons EXCEPT !.menus = TRUE]
                    ELSE NoButtons]
    /\ hb = NoHb
    /\ rc = IdleRc
    /\ epoch = [u \in Users |-> NoSent]
    /\ sent = {}
    /\ last = NoLast

\* The job and the clock alone.
PassNext ==
    \/ Job
    \/ Tick

PassSpec == TwoPrincipals /\ [][PassNext]_vars

\* =================================================== the lock (LockSpec)
\* The principals that have a row.
Registered == {u \in Users : users[u].exists}

C6_NoActiveAtThreshold ==
    \A u \in Registered :
        users[u].login_attempts >= max_attempts =>
            /\ users[u].is_locked
            /\ users[u].unlock_key \in KeyValues

\* A principal one failure short of the lock, still Active, while another
\* user's update is handled.
C6_Witness ==
    \E u \in Registered :
        /\ ~users[u].is_locked
        /\ users[u].login_attempts = max_attempts - 1
        /\ conv[u].auth = "verify"
        /\ last.by # u /\ last.by # 0

UnlockOps == {"/unlock", "select_locked", "request_unlock", "attempt_unlock"}
                 \cup KeyInputs

C9_UnlockResets ==
    [][\A h \in Users, k \in KeyInputs :
        (/\ verify_unlock_key(h, k)
         /\ IsLocked(udata[h].unlock_target)
         /\ k = users[udata[h].unlock_target].unlock_key)
            => LET t == udata[h].unlock_target IN
               /\ users'[t] = [users[t] EXCEPT !.is_locked = FALSE,
                                               !.login_attempts = 0,
                                               !.unlock_key = None,
                                               !.password_hash = NoHash]
               /\ last'.res = "Unlocked"]_vars

\* A principal that had a password and was locked is unlocked.
C9_Witness ==
    \E u \in Registered :
        /\ ~users[u].is_locked
        /\ users[u].login_attempts = 0
        /\ users[u].unlock_key = None
        /\ users[u].password_hash = NoHash
        /\ last.op = "attempt_unlock" /\ last.on = u /\ last.res = "Unlocked"

\* C10: verify_unlock_key with a key other than the stored one of a Locked
\* principal is answered KeyRejected and changes no row: no failure is
\* counted, whatever the number of wrong keys.
C10_WrongKeyChangesNothing ==
    [][\A h \in Users, k \in KeyInputs :
        (/\ verify_unlock_key(h, k)
         /\ IsLocked(udata[h].unlock_target)
         /\ k # users[udata[h].unlock_target].unlock_key)
            => /\ UNCHANGED <<users, contacts, wills>>
               /\ last'.res = "KeyRejected"]_vars

\* A wrong key was rejected; the principal is locked as before.
C10_Witness ==
    \E u \in Registered :
        /\ users[u].is_locked
        /\ users[u].login_attempts = max_attempts
        /\ users[u].unlock_key \in KeyValues
        /\ last.op = "attempt_unlock" /\ last.on = u /\ last.res = "KeyRejected"

\* ======================================== the expiry pass (CheckSpec)
\* C1: between two successful heartbeats of a principal, however many passes
\* of check_dead_mans_switch run, a trustee gets the expiry notice at most
\* once and each will at most once: the pass that fans out marks the
\* principal inactive, and later passes select active rows only.
C1_FanoutAtMostOnce ==
    \A o \in Users :
        /\ \A t \in Users : epoch[o].notices[t] <= 1
        /\ \A d \in Users \X WillIds : epoch[o].deliveries[d] <= 1

\* A later pass is running that left the principal out, after an earlier
\* pass has sent a notice and a will for it and no heartbeat since.
C1_Witness ==
    \E o \in Owners, t \in Users, w \in WillIds :
        /\ rc.pc = "loop"
        /\ o \in rc.skipped
        /\ users[o].status = "inactive"
        /\ epoch[o].notices[t] = 1
        /\ epoch[o].deliveries[<<t, w>>] = 1

\* The trustees the pass has loaded for the principal it is processing.
LoadedTrustees == {c.contact_chat_id : c \in rc.contacts}

\* C2: whatever a pass has delivered for the principal it is processing went
\* to a user that is both among the will's designated recipients and a
\* trustee of that principal in the contacts the pass loaded; a designated
\* recipient without such a link gets nothing, and notices go to loaded
\* trustees only.
C2_DeliveredOnlyToBoundRecipients ==
    /\ \A d \in Users \X WillIds :
          rc.sent.deliveries[d] > 0 =>
              /\ \E w \in rc.wills : /\ w.id = d[2]
                                      /\ w.user_id = rc.cur
                                      /\ d[1] \in w.recipients
              /\ \E c \in rc.contacts : /\ c.owner_chat_id = rc.cur
                                         /\ c.contact_chat_id = d[1]
    /\ \A t \in Users : rc.sent.notices[t] > 0 => t \in LoadedTrustees

\* The fan-out is over for a will addressed to two users, one of them no
\* longer a trustee: the trustee has the will, the other has nothing.
C2_Witness ==
    \E w \in rc.wills, t \in Users, x \in Users :
        /\ rc.pc = "commit"
        /\ t \in w.recipients /\ t \in LoadedTrustees
        /\ x \in w.recipients /\ x \notin LoadedTrustees
        /\ rc.sent.deliveries[<<t, w.id>>] = 1
        /\ rc.sent.deliveries[<<x, w.id>>] = 0

\* C3: when the pass commits an expired principal and no send has failed,
\* the principal becomes inactive, every loaded trustee has got exactly one
\* notice, and every will has gone exactly once to each loaded trustee that
\* is among its recipients and to nobody else.
C3_FanoutExactlyOnce ==
    [][(rc.pc = "commit" /\ rc'.pc # "commit" /\ ~rc.failed) =>
        /\ users'[rc.cur].status = "inactive"
        /\ \A t \in Users :
              rc.sent.notices[t] = IF t \in LoadedTrustees THEN 1 ELSE 0
        /\ \A d \in Users \X WillIds :
              rc.sent.deliveries[d] =
                  IF /\ d[1] \in LoadedTrustees
                     /\ \E w \in rc.wills : w.id = d[2] /\ d[1] \in w.recipients
                  THEN 1 ELSE 0]_vars

\* A pass has just committed a principal with two trustees, both noticed,
\* one of them the recipient of a will it has got.
C3_Witness ==
    \E o \in Owners, t \in Users, x \in Users, w \in WillIds :
        /\ t # x
        /\ rc.pc = "loop" /\ o \notin rc.todo /\ o \notin rc.skipped
        /\ users[o].status = "inactive"
        /\ epoch[o].notices[t] = 1 /\ epoch[o].notices[x] = 1
        /\ epoch[o].deliveries[<<t, w>>] = 1
        /\ epoch[o].deliveries[<<x, w>>] = 0

\* ==================================== expiry is detected (LiveSpec)
\* The values of the clock.
Times == {k * TickHours : k \in 0..MaxTicks}

\* The stored row of u is active, its last heartbeat was at t, and the time
\* since then exceeds its threshold.
OverThreshold(u, t) ==
    /\ users[u].exists
    /\ users[u].last_active = t
    /\ now - t > users[u].check_frequency

\* C4: a principal that is active and over its threshold becomes inactive
\* under repeated passes of check_dead_mans_switch, unless a heartbeat of
\* its own succeeds (last_active moves) or its threshold is raised above the
\* time elapsed (it is then no longer over its threshold).
C4_ExpiryDetected ==
    \A u \in Owners : \A t \in Times :
        (users[u].status = "active" /\ OverThreshold(u, t))
            ~> \/ users[u].status = "inactive"
               \/ users[u].last_active # t
               \/ ~OverThreshold(u, t)

\* A pass has marked inactive a principal without trustees that was over its
\* threshold; the clock has run out since.
C4_Witness ==
    \E u \in Owners :
        /\ users[u].status = "inactive"
        /\ get_contacts(u) = {}
        /\ OverThreshold(u, 0)
        /\ rc.pc = "idle"
        /\ now = MaxTicks * TickHours

\* ================================= unlock of an Active target (RecoverSpec)
\* C11 as the specification states it: verify_unlock_key on a principal
\* that is not locked answers AlreadyUnlocked and changes no row.
C11_AlreadyUnlocked ==
    [][\A h \in Users, k \in KeyInputs :
        (/\ verify_unlock_key(h, k)
         /\ users[udata[h].unlock_target].exists
         /\ ~users[udata[h].unlock_target].is_locked)
            => /\ last'.res = "AlreadyUnlocked"
               /\ UNCHANGED users]_vars

\* ===================================================== the key (LockSpec)
\* C12: a row holds an unlock_key exactly while it is locked: the key is
\* written with is_locked = True and set to None with is_locked = False.
C12_KeyIffLocked ==
    \A u \in Users : (users[u].unlock_key # None) <=> users[u].is_locked

\* A locked principal holds a key while its trustee is offered to unlock it;
\* the other principals hold none.
C12_Witness ==
    \E u \in Registered, h \in Helpers :
        /\ users[u].is_locked
        /\ users[u].unlock_key \in KeyValues
        /\ \A x \in Users \ {u} : users[x].unlock_key = None
        /\ last = [op |-> "request_unlock", by |-> h, on |-> 1, res |-> "Choose"]

\* ================================= heartbeat and the lock (SwitchSpec)
\* The liveness columns of a row.
LivenessFields(row) == <<row.status, row.last_active, row.check_frequency>>

\* C13: a heartbeat of a principal without contacts is answered NotProtected
\* and leaves its status and last_active as they were, active or inactive.
C13_NoTrusteeNoHeartbeat ==
    [][\A u \in Users :
        (hb.active /\ hb.user = u /\ ~hb'.active /\ get_contacts(u) = {})
            => /\ last'.res = "NotProtected"
               /\ users'[u].status = users[u].status
               /\ users'[u].last_active = users[u].last_active]_vars

\* An inactive principal without contacts has sent a heartbeat later than
\* its last one and was told it is not protected.
C13_Witness ==
    \E u \in Registered :
        /\ users[u].status = "inactive"
        /\ users[u].last_active < now
        /\ get_contacts(u) = {}
        /\ last = [op |-> "heartbeat", by |-> u, on |-> 0, res |-> "NotProtected"]

\* C14: a heartbeat sent by a locked principal changes neither its
\* last_active nor its status.
C14_LockedHeartbeatIgnored ==
    [][\A u \in Users :
        (users[u].is_locked /\ last'.by = u /\ last'.op \in {BTN_SAFE, "heartbeat"})
            => /\ users'[u].last_active = users[u].last_active
               /\ users'[u].status = users[u].status]_vars

\* A locked principal with a trustee, marked inactive, has pressed the
\* heartbeat button later than its last heartbeat and was denied.
C14_Witness ==
    \E u \in Registered :
        /\ users[u].is_locked
        /\ get_contacts(u) # {}
        /\ users[u].status = "inactive"
        /\ users[u].last_active < now
        /\ last = [op |-> BTN_SAFE, by |-> u, on |-> 0, res |-> "AccessDenied"]

\* C15: a status goes from 'inactive' to 'active' only in the commit of a
\* heartbeat of that principal, not locked and with a contact, which also
\* sets last_active to now; no other step does it.
C15_OnlyHeartbeatRevives ==
    [][\A u \in Users :
        (users[u].status = "inactive" /\ users'[u].status = "active")
            => /\ hb.active /\ hb.user = u /\ ~hb'.active
               /\ ~users[u].is_locked
               /\ get_contacts(u) # {}
               /\ users'[u].last_active = now
               /\ last' = [op |-> "heartbeat", by |-> u, on |-> 0, res |-> "Confirmed"]]_vars

\* A principal that a running pass left out as inactive is active again
\* after its heartbeat, last_active at the present time.
C15_Witness ==
    \E u \in Registered :
        /\ u \in rc.skipped
        /\ users[u].status = "active"
        /\ users[u].last_active = now /\ now > 0
        /\ last = [op |-> "heartbeat", by |-> u, on |-> 0, res |-> "Confirmed"]

\* C18: handle_password_verification, the locking failure included, and
\* verify_unlock_key, whatever the key, leave status, last_active and
\* check_frequency of the principal as they were.
C18_LockLeavesLiveness ==
    [][\A u \in Users :
        (\/ last'.op = "verify" /\ last'.by = u
         \/ last'.op = "attempt_unlock" /\ last'.on = u)
            => LivenessFields(users'[u]) = LivenessFields(users[u])]_vars

\* A principal over its threshold has just been locked and is still active,
\* with the threshold it had chosen.
C18_Witness ==
    \E u \in Registered :
        /\ users[u].is_locked
        /\ users[u].status = "active"
        /\ users[u].check_frequency # DefaultFrequency
        /\ now - users[u].last_active > users[u].check_frequency
        /\ last = [op |-> "verify", by |-> u, on |-> 0, res |-> "LockedOut"]

\* ========================================== a right password (LockSpec)
\* C16: handle_password_verification with the password of a principal that
\* is not locked answers Authorized and writes login_attempts = 0, whatever
\* the count was, and nothing else in any table.
C16_MatchResetsAttempts ==
    [][\A u \in Users, p \in CandidateInputs :
        (/\ handle_password_verification(u, p)
         /\ ~users[u].is_locked
         /\ hash_password(p) = users[u].password_hash)
            => /\ last'.res = "Authorized"
               /\ users' = [users EXCEPT ![u].login_attempts = 0]
               /\ UNCHANGED <<contacts, wills>>]_vars

\* A principal with a trustee and a will has been authorized; its count is 0
\* and the menus are open to it.
C16_Witness ==
    \E u \in Registered :
        /\ users[u].login_attempts = 0
        /\ ~users[u].is_locked
        /\ get_contacts(u) # {} /\ get_wills(u) # {}
        /\ conv[u].auth = "idle"
        /\ last = [op |-> "verify", by |-> u, on |-> 0, res |-> "Authorized"]

\* The users a set of messages was addressed to, delivered or not.
Addressees(msgs) == {m.to : m \in msgs}

HelperAvailable(o) ==
    \/ \E c \in get_contacts(o) : ~IsLocked(c.contact_chat_id)
    \/ ContactIdsLeft

\* C19: a locked owner is unlocked again when the helpers persist, so from
\* every reachable state with a locked owner some sequence of operations
\* ends with the owner unlocked; this includes the owner without a trustee
\* and the owner whose only trustee is locked.
C19_LockedRecoverable ==
    \A o \in Owners : (IsLocked(o) /\ HelperAvailable(o)) ~> ~IsLocked(o)

\* Owner 1, whose only trustee 2 is still locked, has been unlocked by
\* helper 12, who bound itself while owner 1 was locked.
C19_Witness ==
    /\ last = [op |-> "attempt_unlock", by |-> 12, on |-> 1, res |-> "Unlocked"]
    /\ ~IsLocked(1)
    /\ IsLocked(2)
    /\ {c.contact_chat_id : c \in get_contacts(1)} = {2, 12}

\* C20: no principal ever has more than TrusteeLimit contact rows.
C20_AtMostTenTrustees ==
    \A o \in Users : Cardinality(get_contacts(o)) <= TrusteeLimit

\* C21: no two contact rows have the same owner and the same contact, also
\* after a helper has pressed the accept button of one owner twice.
C21_LinkPairUnique ==
    \A c1, c2 \in contacts :
        (/\ c1.owner_chat_id = c2.owner_chat_id
         /\ c1.contact_chat_id = c2.contact_chat_id) => c1 = c2

\* Helper 2 was bound first, helper 12 second, and helper 2 has pressed its
\* accept button again: the step was answered and no row was added.
C21_Witness ==
    /\ last = [op |-> "accept_bind", by |-> 2, on |-> 1, res |-> "Bound"]
    /\ contacts = {[id |-> 1, owner_chat_id |-> 1, contact_chat_id |-> 2],
                   [id |-> 2, owner_chat_id |-> 1, contact_chat_id |-> 12]}
    /\ nextContactId = 3

\* C22: a contact row or a will is removed only by a step of its owner.
C22_OnlyOwnerRemoves ==
    [][/\ \A c \in contacts \ contacts' : last'.by = c.owner_chat_id
       /\ \A w \in wills \ wills' : last'.by = w.user_id]_vars

\* C23: a contact row (P, G) exists only if P has issued its invitation.
C23_LinkOnlyAfterInvitation ==
    \A c \in contacts : buttons[c.owner_chat_id].card

\* The principals that are locked and have helper t as a trustee.
LockedPrincipalsOf(t) ==
    {p \in Users :
        /\ users[p].exists /\ users[p].is_locked
        /\ \E c \in contacts : c.owner_chat_id = p /\ c.contact_chat_id = t}

\* C24: /unlock offers the caller exactly the locked principals it is a
\* trustee of, each once, offers nothing when there is none, and writes no
\* row.
C24_RequestUnlockExact ==
    [][\A t \in Helpers :
        start_remote_unlock(t)
            => /\ UNCHANGED <<users, contacts, wills>>
               /\ IF LockedPrincipalsOf(t) = {}
                  THEN /\ last'.res = "NothingLocked"
                       /\ buttons'[t].locked = buttons[t].locked
                  ELSE /\ last'.res = "Choose"
                       /\ last'.on = Cardinality(LockedPrincipalsOf(t))
                       /\ buttons'[t].locked \ buttons[t].locked
                              \subseteq LockedPrincipalsOf(t)
                       /\ LockedPrincipalsOf(t) \subseteq buttons'[t].locked]_vars

\* Helper 12 has been offered the one locked principal it guards, which has
\* a second trustee.
C24_Witness ==
    /\ last = [op |-> "request_unlock", by |-> 12, on |-> 1, res |-> "Choose"]
    /\ users[1].is_locked
    /\ {c.contact_chat_id : c \in get_contacts(1)} = {2, 12}
    /\ buttons[12].locked = {1}

\* Helper 2 guards principal 1, which is not locked, and was offered nothing.
C24_WitnessNone ==
    /\ last = [op |-> "request_unlock", by |-> 2, on |-> 0, res |-> "NothingLocked"]
    /\ ~users[1].is_locked
    /\ LinkExists(1, 2)
    /\ buttons[2].locked = {}

\* ================================================ the job, once more
\* C25: while a pass works on an expired principal, a notice to one of its
\* trustees has gone out only if the principal's row already says inactive.
C25_CommitBeforeNotice ==
    (/\ rc.pc \in {"fanout", "commit"}
     /\ \E t \in Users : rc.sent.notices[t] > 0)
        => users[rc.cur].status = "inactive"

\* ================================================ the lock, once more
\* C26: a wrong password of an unlocked principal with k failures stored
\* leaves it unlocked with k + 1 failures and is answered with
\* 5 - (k + 1) remaining tries when k + 1 < 5, and locks it with a key when
\* k + 1 = 5; login_attempts changes only by such a step (+ 1), by a right
\* password or by an unlock (to 0), so a principal becomes locked only by
\* its fifth wrong password in a row.
C26_LockOnFifthMismatch ==
    [][/\ \A u \in Users, p \in CandidateInputs \cup {BTN_SAFE} :
            (/\ handle_password_verification(u, p)
             /\ ~users[u].is_locked
             /\ hash_password(p) # get_db_user(u).password_hash)
                => LET k == get_db_user(u).login_attempts IN
                   IF k + 1 < 5
                   THEN /\ users' = [users EXCEPT ![u] =
                               [get_db_user(u) EXCEPT !.login_attempts = k + 1]]
                        /\ last' = [op |-> "verify", by |-> u,
                                    on |-> 5 - (k + 1), res |-> "Rejected"]
                   ELSE /\ k + 1 = 5
                        /\ users'[u].is_locked
                        /\ users'[u].unlock_key \in KeyValues
                        /\ last'.res = "LockedOut"
       /\ \A u \in Users :
            /\ (users'[u].is_locked /\ ~users[u].is_locked)
                   => /\ users[u].login_attempts = 4
                      /\ last' = [op |-> "verify", by |-> u, on |-> 0,
                                  res |-> "LockedOut"]
            /\ users'[u].login_attempts # users[u].login_attempts
                   => \/ /\ users'[u].login_attempts = users[u].login_attempts + 1
                         /\ last'.op = "verify" /\ last'.by = u
                         /\ last'.res \in {"Rejected", "LockedOut"}
                      \/ /\ users'[u].login_attempts = 0
                         /\ \/ last'.res = "Authorized" /\ last'.by = u
                            \/ last'.res = "Unlocked" /\ last'.on = u]_vars

\* The fourth wrong password in a row: one try remains, no lock.
C26_Witness ==
    \E u \in Registered :
        /\ last = [op |-> "verify", by |-> u, on |-> 1, res |-> "Rejected"]
        /\ users[u].login_attempts = 4
        /\ ~users[u].is_locked
        /\ users[u].unlock_key = None

\* The fifth: the lock.
C26_WitnessLocked ==
    \E u \in Registered :
        /\ last = [op |-> "verify", by |-> u, on |-> 0, res |-> "LockedOut"]
        /\ users[u].login_attempts = 5
        /\ users[u].is_locked

\* C27: when the pass commits an expired principal, whatever sends have
\* failed, the principal becomes inactive, every loaded trustee none of
\* whose sends failed has got its notice and each will addressed to it, and
\* the pass goes on with the principals it has not yet looked at.
C27_FailuresStayLocal ==
    [][(rc.pc = "commit" /\ rc'.pc # "commit") =>
        /\ users'[rc.cur].status = "inactive"
        /\ \A t \in LoadedTrustees \ rc.failedTo :
              /\ rc.sent.notices[t] = 1
              /\ \A w \in rc.wills :
                    t \in w.recipients => rc.sent.deliveries[<<t, w.id>>] = 1
        /\ rc'.pc = "loop"
        /\ rc'.todo = rc.todo \ {rc.cur}]_vars

\* One pass: the notice to trustee 2 of principal 1 failed, trustee 12 got
\* the notice and the will, principal 1 is inactive, and principal 2 has
\* been processed as well.
C27_Witness ==
    /\ rc.pc = "loop" /\ rc.todo = {} /\ rc.now = 30
    /\ users[1].status = "inactive"
    /\ users[2].status = "inactive"
    /\ epoch[1].notices[2] = 0
    /\ epoch[1].notices[12] = 1
    /\ epoch[1].deliveries[<<12, 1>>] = 1
    /\ epoch[2].notices[12] = 1

\* C28: a pass does not treat as expired (no contacts and wills loaded, no
\* send, no commit of 'inactive') a principal whose row was locked when the
\* pass loaded it.
C28_LockedNotExpired ==
    rc.pc \in {"wills", "fanout", "commit"} => ~rc.snap[rc.cur].is_locked

\* C29: a pass that finds an expired principal without contacts sends
\* nothing for it and commits 'inactive'; an inactive principal without
\* contacts stays inactive in every step, and its heartbeat changes no row
\* and no record of what was sent.
C29_NoTrusteeStaysExpired ==
    [][/\ (rc.pc = "commit" /\ rc'.pc # "commit" /\ rc.contacts = {}) =>
            /\ users'[rc.cur].status = "inactive"
            /\ rc.sent = NoSent
            /\ sent' = {}
            /\ epoch' = epoch
       /\ \A u \in Users :
            (users[u].status = "inactive" /\ get_contacts(u) = {}) =>
                /\ users'[u].status = "inactive"
                /\ (hb.active /\ hb.user = u /\ ~hb'.active) =>
                        /\ users' = users
                        /\ contacts' = contacts
                        /\ wills' = wills
                        /\ epoch' = epoch]_vars

\* A principal that never had a contact was marked inactive by a pass that
\* sent nothing, has pressed the heartbeat button after that, and is still
\* inactive with its old last_active.
C29_Witness ==
    \E u \in Registered :
        /\ nextContactId = 1
        /\ users[u].status = "inactive"
        /\ users[u].last_active = 0
        /\ epoch[u] = NoSent
        /\ rc.now > users[u].check_frequency
        /\ u \notin rc.todo
        /\ last = [op |-> "heartbeat", by |-> u, on |-> 0, res |-> "NotProtected"]

\* C30: a pass does not write 'inactive' over a heartbeat committed after
\* the pass loaded the row: when the pass commits for a principal whose
\* stored last_active is newer than the loaded one and within the stored
\* threshold of the pass's now, the status is 'active' after the commit.
C30_HeartbeatNotOverwritten ==
    [][(/\ rc.pc = "commit" /\ rc'.pc # "commit"
        /\ users[rc.cur].last_active > rc.snap[rc.cur].last_active
        /\ rc.now - users[rc.cur].last_active <= users[rc.cur].check_frequency)
            => users'[rc.cur].status = "active"]_vars

\* C31: a pass does not take as expired, and so does not load the contacts
\* and the wills to notify and deliver, a principal whose stored last_active
\* is newer than the one the pass loaded and within the stored threshold of
\* the pass's now when the pass reaches the principal.
C31_DecisionOnStoredRow ==
    [][\A u \in Users :
        (/\ rc.pc = "loop" /\ u \in rc.todo
         /\ users[u].last_active > rc.snap[u].last_active
         /\ rc.now - users[u].last_active <= users[u].check_frequency)
            => ~(rc'.cur = u /\ rc'.pc \in {"wills", "commit"})]_vars

\* C32: a row goes from locked to not locked only in a verify_unlock_key
\* step of a user that has a contact row for that principal when the key is
\* verified.
C32_UnlockOnlyByTrustee ==
    [][\A u \in Users :
        (users[u].is_locked /\ ~users'[u].is_locked)
            => /\ last'.op = "attempt_unlock" /\ last'.on = u
               /\ LinkExists(u, last'.by)]_vars
====
